---- MODULE Spec2Model ----
(***************************************************************************)
(* Region segmentation and boundary counting of src/src/D12/main.ts:       *)
(* findRegions (flood fill), computePerimeter, createUnionFind,            *)
(* groupEdgeSegments, computeSides, part1 and part2.                       *)
(*                                                                         *)
(* Coordinates are 0-based as in the source; grid rows are sequences, so   *)
(* grid[y][x] of the source is grid[y + 1][x + 1] here (operator At).      *)
(***************************************************************************)
EXTENDS Integers, Sequences, FiniteSets, TLC

\* ---------------------------------------------------------------- bounds
\* the enumerated grids have at most MaxCells cells (width * height)
MaxCells == 9
\* the grids of the traversal-order specification
MaxOrderCells == 6

\* the grids of the specification with fairness
MaxFairCells == 8
\* the grids whose regions are processed in any order
MaxParallelCells == 4
\* the guard's grids have at most GuardMaxCells cells, GuardMaxSide columns
\* and rows, and MaxObstacles obstacles
GuardMaxCells == 12
GuardMaxSide == 4
MaxObstacles == 3
\* the grids whose regions are permuted have at most MaxPermCells cells
MaxPermCells == 6
\* the union-finds of their own have at most MaxUfElements elements
MaxUfElements == 5
\* the disk maps have at most MaxMapLen digits
MaxMapLen == 5
\* the malformed input texts have at most MaxTextLen characters
MaxTextLen == 6

\* symbols of the enumerated grids
Symbols == {"A", "B"}

\* a grid of pairwise distinct symbols
DistinctGrid ==
  << <<"A", "B", "C">>,
     <<"D", "E", "F">> >>

\* the 4x4 scenario grid of the specification
ExampleGrid ==
  << <<"A", "A", "A", "A">>,
     <<"B", "B", "C", "D">>,
     <<"B", "B", "C", "C">>,
     <<"E", "E", "E", "C">> >>

\* ------------------------------------------------------------ state
VARIABLES
  grid,        \* string[][], rows of characters
  height,      \* grid.length
  width,       \* grid[0].length
  dirs,        \* the neighbour directions in the order they are examined
  lifo,        \* FALSE: queue.shift() (the source); TRUE: a stack
  pc,          \* position of the program
  visited,     \* findRegions: visited[y][x], as a function of <<x, y>>
  regions,     \* findRegions: regions found so far / the global regions
  y, x,        \* findRegions: loop variables of the row-major scan
  character,   \* findRegions: symbol of the region being filled
  cells,       \* findRegions: cells of the region being filled
  queue,       \* findRegions: BFS queue
  cx, cy,      \* findRegions: the dequeued cell
  d,           \* findRegions: index into dirs of the forEach in progress
  idx,         \* part1 / part2: index of the next region of regions.forEach
  total,       \* part1 / part2: accumulator
  out1, out2,  \* the totals "Part 1:" and "Part 2:" printed, <<>> before
  \* the regions processed in any order (no counterpart in the source)
  todoP,       \* indexes of the regions whose perimeter term is still to add
  todoS,       \* indexes of the regions whose sides term is still to add
  sumP, sumS,  \* the two totals accumulated in any order
  \* the guard patrol, src/src/D9/main.ts:192-361
  gWidth,            \* grid[0].length
  gHeight,           \* grid.length
  obstacles,         \* the keys "x,y" of the "#" cells
  start,             \* the "^" cell, <<x, y>>
  obstaclePosition,  \* createsLoop: its argument, <<x, y>>
  currentLocation,   \* createsLoop: <<x, y>>
  currentDirection,  \* createsLoop: "N", "E", "S" or "W"
  turnPoints,        \* createsLoop: the keys "x,y,direction" of the turns
  loopResult,        \* createsLoop: <<>> while running, then <<returned value>>
  gpc,               \* position in createsLoop
  \* the disk compaction, src/src/D9/main.ts:1-190
  diskMap,           \* the disk map, a sequence of digit characters
  disk,              \* number[], -1 for a free block
  fileCount,         \* compactWholeFiles: its argument
  currentFileId,     \* compactWholeFiles: loop variable
  dOut1, dOut2,      \* the checksums printed, <<>> before
  dpc,               \* position in the disk program
  \* a union-find of its own, src/src/D12/main.ts:113-151
  ufElements,        \* createUnionFind: its argument
  ufParent,          \* createUnionFind: parent
  ufSize,            \* createUnionFind: size
  ufClasses,         \* the classes of the equivalence the union calls generate
  ufLast             \* the last call: its name, arguments and returned value

d12Vars == <<grid, height, width, dirs, lifo, pc, visited, regions, y, x,
             character, cells, queue, cx, cy, d, idx, total, out1, out2>>

parVars == <<todoP, todoS, sumP, sumS>>

guardVars == <<gWidth, gHeight, obstacles, start, obstaclePosition,
               currentLocation, currentDirection, turnPoints, loopResult, gpc>>

\* the variables of the other programs and variants
diskVars == <<diskMap, disk, fileCount, currentFileId, dOut1, dOut2, dpc>>

ufVars == <<ufElements, ufParent, ufSize, ufClasses, ufLast>>

otherVars == <<parVars, guardVars, diskVars, ufVars>>

vars == <<d12Vars, otherVars>>

None == "none"

\* directions with its last entry a copy of the third: left is never examined
directionsTypo == << <<0, -1>>, <<1, 0>>, <<0, 1>>, <<0, 1>> >>

\* src/src/D12/main.ts:19-24
directions == << <<0, -1>>, <<1, 0>>, <<0, 1>>, <<-1, 0>> >>

\* a read past the end of a row or of the grid is undefined in JavaScript
Undefined == "undefined"

\* grid[py][px], src/src/D12/main.ts:58 and :68
At(g, px, py) ==
  IF py + 1 \in 1..Len(g) /\ px + 1 \in 1..Len(g[py + 1])
    THEN g[py + 1][px + 1]
    ELSE Undefined

\* src/src/D12/main.ts:32-34
inBounds(px, py) == px >= 0 /\ px < width /\ py >= 0 /\ py < height

\* ------------------------------------------------- coordinate keys
Digits == <<"0", "1", "2", "3", "4", "5", "6", "7", "8", "9">>

RECURSIVE NatToStr(_)
NatToStr(n) ==
  IF n < 10 THEN <<Digits[n + 1]>>
            ELSE NatToStr(n \div 10) \o <<Digits[(n % 10) + 1]>>

\* String(n) of a template literal, as a sequence of characters
NumToStr(n) == IF n < 0 THEN <<"-">> \o NatToStr(-n) ELSE NatToStr(n)

\* src/src/D12/main.ts:42-44
coordinateKey(px, py) == NumToStr(px) \o <<",">> \o NumToStr(py)

DigitVal(c) == CHOOSE v \in 0..9 : Digits[v + 1] = c

RECURSIVE StrToNat(_, _)
StrToNat(s, acc) ==
  IF s = <<>> THEN acc ELSE StrToNat(Tail(s), 10 * acc + DigitVal(Head(s)))

\* Number(s) on the strings coordinateKey produces
Number(s) == IF Head(s) = "-" THEN 0 - StrToNat(Tail(s), 0) ELSE StrToNat(s, 0)

\* src/src/D12/main.ts:158-161
parseCoordinateKey(key) ==
  LET i == CHOOSE j \in 1..Len(key) : key[j] = ","
  IN  <<Number(SubSeq(key, 1, i - 1)), Number(SubSeq(key, i + 1, Len(key)))>>

\* ------------------------------------------------- helpers on sequences
Range(s) == {s[i] : i \in 1..Len(s)}

\* new Set(region.cells.map(c => coordinateKey(c.x, c.y)))
\* src/src/D12/main.ts:92 and :201
KeySet(region) == {coordinateKey(c.x, c.y) : c \in Range(region.cells)}

\* ------------------------------------------------- computePerimeter
\* Exposed with the bounds test inverted: edges on the grid border are lost
ExposedInsideOnly(cellSet, c, dir) ==
  LET nx == c.x + dir[1]
      ny == c.y + dir[2]
  IN  inBounds(nx, ny) /\ coordinateKey(nx, ny) \notin cellSet

\* src/src/D12/main.ts:96-102, the test of one direction of one cell
Exposed(cellSet, c, dir) ==
  LET nx == c.x + dir[1]
      ny == c.y + dir[2]
  IN  ~inBounds(nx, ny) \/ coordinateKey(nx, ny) \notin cellSet

RECURSIVE PerimeterLoop(_, _, _, _)
PerimeterLoop(cs, cellSet, i, perimeter) ==
  IF i > Len(cs) THEN perimeter
  ELSE PerimeterLoop(cs, cellSet, i + 1,
         perimeter + Cardinality({k \in 1..Len(directions) :
                                    Exposed(cellSet, cs[i], directions[k])}))

\* src/src/D12/main.ts:91-106
computePerimeter(region) == PerimeterLoop(region.cells, KeySet(region), 1, 0)

\* ------------------------------------------------- union-find
\* src/src/D12/main.ts:114-120
createUnionFind(elements) ==
  [parent |-> [e \in Range(elements) |-> e],
   size   |-> [e \in Range(elements) |-> 1]]

\* src/src/D12/main.ts:122-129; returns the root and the compressed parent map
RECURSIVE FindLoop(_, _)
FindLoop(parent, p) ==
  IF p = parent[p] THEN [parent |-> parent, root |-> p]
  ELSE LET compressed == [parent EXCEPT ![p] = parent[parent[p]]]
       IN  FindLoop(compressed, compressed[p])

find(uf, element) == FindLoop(uf.parent, element)

\* union hanging b itself, not its root, under the root of a
unionElement(uf, a, b) ==
  LET fa == find(uf, a)
      fb == FindLoop(fa.parent, b)
  IN  IF fa.root = fb.root THEN [parent |-> fb.parent, size |-> uf.size]
      ELSE [parent |-> [fb.parent EXCEPT ![b] = fa.root],
            size   |-> [uf.size EXCEPT ![fa.root] = uf.size[fa.root] + uf.size[fb.root]]]

\* src/src/D12/main.ts:131-143
union(uf, a, b) ==
  LET fa == find(uf, a)
      fb == FindLoop(fa.parent, b)
      rootA == fa.root
      rootB == fb.root
      par == fb.parent
  IN  IF rootA = rootB THEN [parent |-> par, size |-> uf.size]
      ELSE IF uf.size[rootA] < uf.size[rootB]
        THEN [parent |-> [par EXCEPT ![rootA] = rootB],
              size   |-> [uf.size EXCEPT ![rootB] = uf.size[rootB] + uf.size[rootA]]]
        ELSE [parent |-> [par EXCEPT ![rootB] = rootA],
              size   |-> [uf.size EXCEPT ![rootA] = uf.size[rootA] + uf.size[rootB]]]

\* countComponents counting the elements instead of their roots
countComponentsElements(uf, elements) == Len(elements)

\* src/src/D12/main.ts:145-148
RECURSIVE RootsLoop(_, _, _, _)
RootsLoop(parent, elements, i, roots) ==
  IF i > Len(elements) THEN roots
  ELSE LET f == FindLoop(parent, elements[i])
       IN  RootsLoop(f.parent, elements, i + 1, roots \cup {f.root})

countComponents(uf, elements) == Cardinality(RootsLoop(uf.parent, elements, 1, {}))

\* ------------------------------------------------- groupEdgeSegments
\* EdgeNeighbours with the two axes swapped
EdgeNeighboursSwapped(position, isVertical) ==
  LET xy == parseCoordinateKey(position)
  IN  IF isVertical
        THEN <<coordinateKey(xy[1] - 1, xy[2]), coordinateKey(xy[1] + 1, xy[2])>>
        ELSE <<coordinateKey(xy[1], xy[2] - 1), coordinateKey(xy[1], xy[2] + 1)>>

\* src/src/D12/main.ts:177-189, the two neighbours a position is united with
EdgeNeighbours(position, isVertical) ==
  LET xy == parseCoordinateKey(position)
  IN  IF isVertical
        THEN <<coordinateKey(xy[1], xy[2] - 1), coordinateKey(xy[1], xy[2] + 1)>>
        ELSE <<coordinateKey(xy[1] - 1, xy[2]), coordinateKey(xy[1] + 1, xy[2])>>

UnionIfPresent(uf, positionSet, position, other) ==
  IF other \in positionSet THEN union(uf, position, other) ELSE uf

RECURSIVE GroupLoop(_, _, _, _, _)
GroupLoop(uf, edgePositions, positionSet, isVertical, i) ==
  IF i > Len(edgePositions) THEN uf
  ELSE LET position == edgePositions[i]
           nb  == EdgeNeighbours(position, isVertical)
           uf1 == UnionIfPresent(uf, positionSet, position, nb[1])
           uf2 == UnionIfPresent(uf1, positionSet, position, nb[2])
       IN  GroupLoop(uf2, edgePositions, positionSet, isVertical, i + 1)

\* groupEdgeSegments merging all the edges of an orientation into one side
groupEdgeSegmentsMerged(edgePositions, isVertical) ==
  IF Len(edgePositions) = 0 THEN 0 ELSE 1

\* src/src/D12/main.ts:169-193
groupEdgeSegments(edgePositions, isVertical) ==
  IF Len(edgePositions) = 0 THEN 0
  ELSE countComponents(
         GroupLoop(createUnionFind(edgePositions), edgePositions,
                   Range(edgePositions), isVertical, 1),
         edgePositions)

\* ------------------------------------------------- computeSides
\* EdgeList with a bounds test that drops the edges on the grid border
EdgeListInsideOnly(region, dx, dy) ==
  LET cellSet == KeySet(region)
      kept == SelectSeq(region.cells,
                LAMBDA c : /\ inBounds(c.x + dx, c.y + dy)
                           /\ coordinateKey(c.x + dx, c.y + dy) \notin cellSet)
  IN  [i \in 1..Len(kept) |-> coordinateKey(kept[i].x, kept[i].y)]

\* src/src/D12/main.ts:209-215: the keys of the cells, in the order of
\* region.cells, whose neighbour at offset (dx, dy) is not in cellSet
EdgeList(region, dx, dy) ==
  LET cellSet == KeySet(region)
      kept == SelectSeq(region.cells,
                LAMBDA c : coordinateKey(c.x + dx, c.y + dy) \notin cellSet)
  IN  [i \in 1..Len(kept) |-> coordinateKey(kept[i].x, kept[i].y)]

leftEdges(region)   == EdgeList(region, -1, 0)
rightEdges(region)  == EdgeList(region, 1, 0)
topEdges(region)    == EdgeList(region, 0, -1)
bottomEdges(region) == EdgeList(region, 0, 1)

\* src/src/D12/main.ts:200-224
computeSides(region) ==
  groupEdgeSegments(leftEdges(region), TRUE) +
  groupEdgeSegments(rightEdges(region), TRUE) +
  groupEdgeSegments(topEdges(region), FALSE) +
  groupEdgeSegments(bottomEdges(region), FALSE)

\* ------------------------------------------------- initial states
GridCells == {[x |-> px, y |-> py] : px \in 0..(width - 1), py \in 0..(height - 1)}

\* the rectangular grids of at most n cells over Symbols
GridsUpTo(n) ==
  UNION {[1..wh[2] -> [1..wh[1] -> Symbols]] :
           wh \in {p \in (1..n) \X (1..n) : p[1] * p[2] <= n}}

\* the orders in which the four directions can be examined
DirectionOrders ==
  {[i \in 1..4 |-> directions[p[i]]] :
     p \in {q \in [1..4 -> 1..4] : \A i, j \in 1..4 : q[i] = q[j] => i = j}}

\* the disk compaction is not running
DiskIdle ==
  /\ diskMap = <<>>
  /\ disk = <<>>
  /\ fileCount = 0
  /\ currentFileId = 0
  /\ dOut1 = <<>>
  /\ dOut2 = <<>>
  /\ dpc = "idle"

\* no union-find of its own has been created
UfIdle ==
  /\ ufElements = <<>>
  /\ ufParent = <<>>
  /\ ufSize = <<>>
  /\ ufClasses = {}
  /\ ufLast = [call |-> "none", arg |-> <<>>, result |-> <<>>]

\* the guard patrol is not running
GuardIdle ==
  /\ gWidth = 0
  /\ gHeight = 0
  /\ obstacles = {}
  /\ start = <<0, 0>>
  /\ obstaclePosition = <<0, 0>>
  /\ currentLocation = <<0, 0>>
  /\ currentDirection = "N"
  /\ turnPoints = {}
  /\ loopResult = <<>>
  /\ gpc = "idle"

\* src/src/D12/main.ts:11-17 (parseInput) and :51-52
Start(g, ds, st) ==
  /\ grid = g
  /\ height = Len(g)
  /\ width = Len(g[1])
  /\ dirs = ds
  /\ lifo = st
  /\ pc = "scan"
  /\ visited = [c \in {[x |-> px, y |-> py] :
                         px \in 0..(Len(g[1]) - 1), py \in 0..(Len(g) - 1)} |-> FALSE]
  /\ regions = <<>>
  /\ y = 0
  /\ x = 0
  /\ character = None
  /\ cells = <<>>
  /\ queue = <<>>
  /\ cx = 0
  /\ cy = 0
  /\ d = 1
  /\ idx = 1
  /\ total = 0
  /\ out1 = <<>>
  /\ out2 = <<>>
  /\ todoP = {}
  /\ todoS = {}
  /\ sumP = 0
  /\ sumS = 0
  /\ GuardIdle
  /\ DiskIdle
  /\ UfIdle

Init ==
  \E g \in GridsUpTo(MaxCells) \cup {ExampleGrid, DistinctGrid} :
    Start(g, directions, FALSE)

\* ------------------------------------------------- parseInput
\* String.prototype.trim on the characters of the enumerated texts
Whitespace == {"\n", " "}

RECURSIVE TrimStart(_)
TrimStart(s) ==
  IF s # <<>> /\ Head(s) \in Whitespace THEN TrimStart(Tail(s)) ELSE s

RECURSIVE TrimEnd(_)
TrimEnd(s) ==
  IF s # <<>> /\ s[Len(s)] \in Whitespace
    THEN TrimEnd(SubSeq(s, 1, Len(s) - 1)) ELSE s

trim(s) == TrimEnd(TrimStart(s))

\* String.prototype.split(sep); split("") of a line is the line itself here
RECURSIVE SplitLoop(_, _, _, _)
SplitLoop(s, sep, cur, out) ==
  IF s = <<>> THEN Append(out, cur)
  ELSE IF Head(s) = sep THEN SplitLoop(Tail(s), sep, <<>>, Append(out, cur))
  ELSE SplitLoop(Tail(s), sep, Append(cur, Head(s)), out)

split(s, sep) == SplitLoop(s, sep, <<>>, <<>>)

\* src/src/D12/main.ts:11-15, on the text of the file
parseInput(text) ==
  LET lines == split(trim(text), "\n")
  IN  [grid |-> lines, height |-> Len(lines), width |-> Len(lines[1])]

\* the input texts of at most n characters
TextsUpTo(n) == UNION {[1..k -> Symbols \cup {"\n"}] : k \in 0..n}

\* rows of unequal length, or no cell at all
Malformed(g) ==
  \/ \A i \in 1..Len(g) : Len(g[i]) = 0
  \/ \E i, j \in 1..Len(g) : Len(g[i]) # Len(g[j])

\* the program started on a malformed input.txt
InitMalformed ==
  \E t \in TextsUpTo(MaxTextLen) :
    /\ Malformed(parseInput(t).grid)
    /\ Start(parseInput(t).grid, directions, FALSE)

InitOrder ==
  \E g \in GridsUpTo(MaxOrderCells) :
    \E ds \in DirectionOrders : \E st \in BOOLEAN : Start(g, ds, st)

\* ------------------------------------------------- findRegions
findRegionsFrame ==
  UNCHANGED <<grid, height, width, dirs, lifo, idx, total, out1, out2, otherVars>>

\* ScanStart without line 57: the first cell of a region is not marked
ScanStartNoMark ==
  /\ pc = "scan"
  /\ y < height /\ x < width
  /\ ~visited[[x |-> x, y |-> y]]
  /\ character' = At(grid, x, y)
  /\ cells' = <<[x |-> x, y |-> y]>>
  /\ queue' = <<[x |-> x, y |-> y]>>
  /\ pc' = "bfs"
  /\ UNCHANGED <<visited, regions, y, x, cx, cy, d>>
  /\ findRegionsFrame

\* src/src/D12/main.ts:56-60: an unvisited cell starts a region
ScanStart ==
  /\ pc = "scan"
  /\ y < height /\ x < width
  /\ ~visited[[x |-> x, y |-> y]]
  /\ visited' = [visited EXCEPT ![[x |-> x, y |-> y]] = TRUE]
  /\ character' = At(grid, x, y)
  /\ cells' = <<[x |-> x, y |-> y]>>
  /\ queue' = <<[x |-> x, y |-> y]>>
  /\ pc' = "bfs"
  /\ UNCHANGED <<regions, y, x, cx, cy, d>>
  /\ findRegionsFrame

\* src/src/D12/main.ts:55-56: a visited cell is passed over
ScanSkip ==
  /\ pc = "scan"
  /\ y < height /\ x < width
  /\ visited[[x |-> x, y |-> y]]
  /\ x' = x + 1
  /\ UNCHANGED <<pc, visited, regions, y, character, cells, queue, cx, cy, d>>
  /\ findRegionsFrame

\* src/src/D12/main.ts:54-55: the inner loop ends, the next row begins
NextRow ==
  /\ pc = "scan"
  /\ y < height /\ x >= width
  /\ y' = y + 1
  /\ x' = 0
  /\ UNCHANGED <<pc, visited, regions, character, cells, queue, cx, cy, d>>
  /\ findRegionsFrame

\* Dequeue reading queue[0] without removing it
DequeuePeek ==
  /\ pc = "bfs"
  /\ Len(queue) > 0
  /\ LET c == IF lifo THEN queue[Len(queue)] ELSE Head(queue)
     IN  /\ cx' = c.x
         /\ cy' = c.y
  /\ d' = 1
  /\ pc' = "dir"
  /\ UNCHANGED <<visited, regions, y, x, character, cells, queue>>
  /\ findRegionsFrame

\* src/src/D12/main.ts:63-64: queue.shift() (or the top of a stack)
Dequeue ==
  /\ pc = "bfs"
  /\ Len(queue) > 0
  /\ LET c == IF lifo THEN queue[Len(queue)] ELSE Head(queue)
     IN  /\ cx' = c.x
         /\ cy' = c.y
  /\ queue' = IF lifo THEN SubSeq(queue, 1, Len(queue) - 1) ELSE Tail(queue)
  /\ d' = 1
  /\ pc' = "dir"
  /\ UNCHANGED <<visited, regions, y, x, character, cells>>
  /\ findRegionsFrame

\* Accepts without the comparison of symbols
AcceptsAnySymbol(nx, ny) ==
  /\ inBounds(nx, ny)
  /\ ~visited[[x |-> nx, y |-> ny]]

\* src/src/D12/main.ts:68
Accepts(nx, ny) ==
  /\ inBounds(nx, ny)
  /\ ~visited[[x |-> nx, y |-> ny]]
  /\ At(grid, nx, ny) = character

\* NeighbourReads with inBounds tested last: the arrays are read first
NeighbourReadsUnguarded(nx, ny) ==
  IF [x |-> nx, y |-> ny] \in DOMAIN visited /\ visited[[x |-> nx, y |-> ny]]
    THEN <<[array |-> "visited", x |-> nx, y |-> ny]>>
    ELSE <<[array |-> "visited", x |-> nx, y |-> ny],
           [array |-> "grid", x |-> nx, y |-> ny]>>

\* src/src/D12/main.ts:68: the reads visited[ny][nx] and grid[ny][nx] that
\* the condition makes, && evaluating its operands from left to right and
\* stopping at the first that is false
NeighbourReads(nx, ny) ==
  IF ~inBounds(nx, ny) THEN <<>>
  ELSE IF visited[[x |-> nx, y |-> ny]]
    THEN <<[array |-> "visited", x |-> nx, y |-> ny]>>
    ELSE <<[array |-> "visited", x |-> nx, y |-> ny],
           [array |-> "grid", x |-> nx, y |-> ny]>>

\* the forEach over the directions moves on, or ends and the while loop resumes
NextDirection ==
  IF d < Len(dirs) THEN d' = d + 1 /\ pc' = "dir"
                   ELSE d' = 1 /\ pc' = "bfs"

\* src/src/D12/main.ts:65-72: the neighbour joins the region
VisitNeighbour ==
  /\ pc = "dir"
  /\ LET nx == cx + dirs[d][1]
         ny == cy + dirs[d][2]
     IN  /\ Accepts(nx, ny)
         /\ visited' = [visited EXCEPT ![[x |-> nx, y |-> ny]] = TRUE]
         /\ cells' = Append(cells, [x |-> nx, y |-> ny])
         /\ queue' = Append(queue, [x |-> nx, y |-> ny])
  /\ NextDirection
  /\ UNCHANGED <<regions, y, x, character, cx, cy>>
  /\ findRegionsFrame

\* src/src/D12/main.ts:65-68: the neighbour is out of bounds, visited or different
SkipNeighbour ==
  /\ pc = "dir"
  /\ ~Accepts(cx + dirs[d][1], cy + dirs[d][2])
  /\ NextDirection
  /\ UNCHANGED <<visited, regions, y, x, character, cells, queue, cx, cy>>
  /\ findRegionsFrame

\* src/src/D12/main.ts:76: the queue is empty, the region is complete
PushRegion ==
  /\ pc = "bfs"
  /\ Len(queue) = 0
  /\ regions' = Append(regions, [cells |-> cells, char |-> character])
  /\ x' = x + 1
  /\ pc' = "scan"
  /\ UNCHANGED <<visited, y, character, cells, queue, cx, cy, d>>
  /\ findRegionsFrame

\* src/src/D12/main.ts:81 and :84: return regions; part1() begins
FindRegionsReturn ==
  /\ pc = "scan"
  /\ y >= height
  /\ pc' = "part1"
  /\ idx' = 1
  /\ total' = 0
  /\ UNCHANGED <<grid, height, width, dirs, lifo, visited, regions, y, x,
                 character, cells, queue, cx, cy, d, out1, out2, otherVars>>

\* ------------------------------------------------- part1 and part2
partFrame == UNCHANGED <<grid, height, width, dirs, lifo, visited, regions, y, x,
                         character, cells, queue, cx, cy, d, otherVars>>

\* src/src/D12/main.ts:229
area(region) == Len(region.cells)

\* Part1Step with "=" for "+=": only the last region counts
Part1StepOverwrite ==
  /\ pc = "part1"
  /\ idx <= Len(regions)
  /\ total' = area(regions[idx]) * computePerimeter(regions[idx])
  /\ idx' = idx + 1
  /\ UNCHANGED <<pc, out1, out2>>
  /\ partFrame

\* src/src/D12/main.ts:228-231
Part1Step ==
  /\ pc = "part1"
  /\ idx <= Len(regions)
  /\ total' = total + area(regions[idx]) * computePerimeter(regions[idx])
  /\ idx' = idx + 1
  /\ UNCHANGED <<pc, out1, out2>>
  /\ partFrame

\* src/src/D12/main.ts:232 and :236
Part1Print ==
  /\ pc = "part1"
  /\ idx > Len(regions)
  /\ out1' = <<total>>
  /\ pc' = "part2"
  /\ idx' = 1
  /\ total' = 0
  /\ UNCHANGED out2
  /\ partFrame

\* Part2Step iterating with regions.shift(): the regions are consumed
Part2StepConsume ==
  /\ pc = "part2"
  /\ Len(regions) > 0
  /\ total' = total + area(regions[1]) * computeSides(regions[1])
  /\ regions' = Tail(regions)
  /\ UNCHANGED <<pc, idx, out1, out2>>
  /\ UNCHANGED <<grid, height, width, dirs, lifo, visited, y, x,
                 character, cells, queue, cx, cy, d, otherVars>>

\* src/src/D12/main.ts:237-240
Part2Step ==
  /\ pc = "part2"
  /\ idx <= Len(regions)
  /\ total' = total + area(regions[idx]) * computeSides(regions[idx])
  /\ idx' = idx + 1
  /\ UNCHANGED <<pc, out1, out2>>
  /\ partFrame

\* src/src/D12/main.ts:241
Part2Print ==
  /\ pc = "part2"
  /\ idx > Len(regions)
  /\ out2' = <<total>>
  /\ pc' = "done"
  /\ UNCHANGED <<idx, total, out1>>
  /\ partFrame

Next ==
  \/ ScanStart
  \/ ScanSkip
  \/ NextRow
  \/ Dequeue
  \/ VisitNeighbour
  \/ SkipNeighbour
  \/ PushRegion
  \/ FindRegionsReturn
  \/ Part1Step
  \/ Part1Print
  \/ Part2Step
  \/ Part2Print

Spec == Init /\ [][Next]_vars

\* the same program with the directions examined in any order, queue or stack
SpecOrder == InitOrder /\ [][Next]_vars

\* the program on malformed inputs
SpecMalformed == InitMalformed /\ [][Next]_vars

InitFair ==
  \E g \in GridsUpTo(MaxFairCells) : Start(g, directions, FALSE)

\* src/src/D12/main.ts:11-17 and :51-52, on the grids whose regions are
\* measured in every order of their cells
InitPermuted ==
  \E g \in GridsUpTo(MaxPermCells) : Start(g, directions, FALSE)

SpecPermuted == InitPermuted /\ [][Next]_vars

\* the steps of findRegions
findRegionsNext ==
  \/ ScanStart
  \/ ScanSkip
  \/ NextRow
  \/ Dequeue
  \/ VisitNeighbour
  \/ SkipNeighbour
  \/ PushRegion
  \/ FindRegionsReturn

\* the program, findRegions running to its end: the program is one thread
\* that is never suspended, so a step of findRegions that can be taken is taken
SpecFair == InitFair /\ [][Next]_vars /\ WF_vars(findRegionsNext)

\* ------------------------------------------------- regions in any order
\* part1Body with "=" for "+="
part1BodyOverwrite(t, region) == area(region) * computePerimeter(region)

\* src/src/D12/main.ts:230, the body of part1's forEach
part1Body(t, region) == t + area(region) * computePerimeter(region)

\* src/src/D12/main.ts:239, the body of part2's forEach
part2Body(t, region) == t + area(region) * computeSides(region)

\* src/src/D12/main.ts:227-231 and :236-240: the totals of the sequential loops
RECURSIVE Part1Total(_, _)
Part1Total(i, t) ==
  IF i > Len(regions) THEN t
  ELSE Part1Total(i + 1, part1Body(t, regions[i]))

RECURSIVE Part2Total(_, _)
Part2Total(i, t) ==
  IF i > Len(regions) THEN t
  ELSE Part2Total(i + 1, part2Body(t, regions[i]))

InitParallel ==
  \E g \in GridsUpTo(MaxParallelCells) : Start(g, directions, FALSE)

parFrame == UNCHANGED <<grid, height, width, dirs, lifo, visited, regions, y, x,
                        character, cells, queue, cx, cy, d, idx, total, out1, out2,
                        guardVars, diskVars, ufVars>>

\* findRegions returns and the regions are handed out
ParFork ==
  /\ pc = "scan"
  /\ y >= height
  /\ pc' = "par"
  /\ todoP' = 1..Len(regions)
  /\ todoS' = 1..Len(regions)
  /\ sumP' = 0
  /\ sumS' = 0
  /\ parFrame

\* the perimeter term of any region not yet counted
ParPerimeter ==
  /\ pc = "par"
  /\ \E i \in todoP :
       /\ sumP' = part1Body(sumP, regions[i])
       /\ todoP' = todoP \ {i}
  /\ UNCHANGED <<pc, todoS, sumS>>
  /\ parFrame

\* the sides term of any region not yet counted
ParSides ==
  /\ pc = "par"
  /\ \E i \in todoS :
       /\ sumS' = part2Body(sumS, regions[i])
       /\ todoS' = todoS \ {i}
  /\ UNCHANGED <<pc, todoP, sumP>>
  /\ parFrame

ParJoin ==
  /\ pc = "par"
  /\ todoP = {} /\ todoS = {}
  /\ pc' = "joined"
  /\ UNCHANGED parVars
  /\ parFrame

NextParallel ==
  \/ ScanStart
  \/ ScanSkip
  \/ NextRow
  \/ Dequeue
  \/ VisitNeighbour
  \/ SkipNeighbour
  \/ PushRegion
  \/ ParFork
  \/ ParPerimeter
  \/ ParSides
  \/ ParJoin

\* findRegions followed by the per-region computations in any interleaving
SpecParallel == InitParallel /\ [][NextParallel]_vars

\* ------------------------------------------------- the guard patrol
\* the region program is not running
D12Idle ==
  /\ grid = <<<<>>>>
  /\ height = 0
  /\ width = 0
  /\ dirs = directions
  /\ lifo = FALSE
  /\ pc = "idle"
  /\ visited = <<>>
  /\ regions = <<>>
  /\ y = 0
  /\ x = 0
  /\ character = None
  /\ cells = <<>>
  /\ queue = <<>>
  /\ cx = 0
  /\ cy = 0
  /\ d = 1
  /\ idx = 1
  /\ total = 0
  /\ out1 = <<>>
  /\ out2 = <<>>
  /\ todoP = {}
  /\ todoS = {}
  /\ sumP = 0
  /\ sumS = 0

\* src/src/D9/main.ts:217-222
guardDirections == [N |-> <<0, -1>>, E |-> <<1, 0>>, S |-> <<0, 1>>, W |-> <<-1, 0>>]

\* src/src/D9/main.ts:224-229
turns == [N |-> "E", E |-> "S", S |-> "W", W |-> "N"]

\* src/src/D9/main.ts:240-278
getNextLocation(loc, dir, extraObstacle) ==
  LET nextX == loc[1] + guardDirections[dir][1]
      nextY == loc[2] + guardDirections[dir][2]
      nextPoint == coordinateKey(nextX, nextY)
      inB == nextX >= 0 /\ nextX < gWidth /\ nextY >= 0 /\ nextY < gHeight
  IN  IF ~inB THEN [outOfBounds |-> TRUE]
      ELSE IF nextPoint \in obstacles \/ extraObstacle = nextPoint
        THEN [nextLocation |-> loc, nextDirection |-> turns[dir],
              outOfBounds |-> FALSE]
        ELSE [nextLocation |-> <<nextX, nextY>>, nextDirection |-> dir,
              outOfBounds |-> FALSE]

\* src/src/D9/main.ts:320
obstaclePoint == coordinateKey(obstaclePosition[1], obstaclePosition[2])

\* turnKey without the direction
turnKeyNoDirection(loc, dir) == coordinateKey(loc[1], loc[2])

\* src/src/D9/main.ts:335
turnKey(loc, dir) == coordinateKey(loc[1], loc[2]) \o <<",", dir>>

GuardCells(w, h) == (0..(w - 1)) \X (0..(h - 1))

\* src/src/D9/main.ts:199-215: a grid with its obstacles and its start cell,
\* and createsLoop called on one of its cells
InitGuard ==
  \E wh \in {q \in (1..GuardMaxSide) \X (1..GuardMaxSide) :
               q[1] * q[2] <= GuardMaxCells} :
    \E obs \in {o \in SUBSET GuardCells(wh[1], wh[2]) :
                  Cardinality(o) <= MaxObstacles} :
      \E st \in GuardCells(wh[1], wh[2]) \ obs :
        \E pos \in GuardCells(wh[1], wh[2]) :
          /\ gWidth = wh[1]
          /\ gHeight = wh[2]
          /\ obstacles = {coordinateKey(c[1], c[2]) : c \in obs}
          /\ start = st
          /\ obstaclePosition = pos
          /\ currentLocation = st
          /\ currentDirection = "N"
          /\ turnPoints = {}
          /\ loopResult = <<>>
          /\ gpc = "call"
          /\ D12Idle
          /\ DiskIdle
          /\ UfIdle

guardFrame == UNCHANGED <<d12Vars, parVars, diskVars, ufVars, gWidth, gHeight, obstacles, start,
                          obstaclePosition>>

\* src/src/D9/main.ts:321-323
Rejected ==
  \/ obstaclePoint \in obstacles
  \/ obstaclePosition[1] = start[1] /\ obstaclePosition[2] = start[2]

CreatesLoopReject ==
  /\ gpc = "call"
  /\ Rejected
  /\ loopResult' = <<FALSE>>
  /\ gpc' = "returned"
  /\ UNCHANGED <<currentLocation, currentDirection, turnPoints>>
  /\ guardFrame

\* src/src/D9/main.ts:325-327
CreatesLoopBegin ==
  /\ gpc = "call"
  /\ ~Rejected
  /\ turnPoints' = {}
  /\ currentLocation' = start
  /\ currentDirection' = "N"
  /\ gpc' = "loop"
  /\ UNCHANGED loopResult
  /\ guardFrame

\* src/src/D9/main.ts:330-331
StepOutOfBounds ==
  /\ gpc = "loop"
  /\ getNextLocation(currentLocation, currentDirection, obstaclePoint).outOfBounds
  /\ loopResult' = <<FALSE>>
  /\ gpc' = "returned"
  /\ UNCHANGED <<currentLocation, currentDirection, turnPoints>>
  /\ guardFrame

\* src/src/D9/main.ts:334-338
StepLoopFound ==
  /\ gpc = "loop"
  /\ LET next == getNextLocation(currentLocation, currentDirection, obstaclePoint)
     IN  /\ ~next.outOfBounds
         /\ next.nextDirection # currentDirection
         /\ turnKey(currentLocation, currentDirection) \in turnPoints
  /\ loopResult' = <<TRUE>>
  /\ gpc' = "returned"
  /\ UNCHANGED <<currentLocation, currentDirection, turnPoints>>
  /\ guardFrame

\* src/src/D9/main.ts:334-343
StepTurn ==
  /\ gpc = "loop"
  /\ LET next == getNextLocation(currentLocation, currentDirection, obstaclePoint)
     IN  /\ ~next.outOfBounds
         /\ next.nextDirection # currentDirection
         /\ turnKey(currentLocation, currentDirection) \notin turnPoints
         /\ turnPoints' = turnPoints \cup {turnKey(currentLocation, currentDirection)}
         /\ currentLocation' = next.nextLocation
         /\ currentDirection' = next.nextDirection
  /\ UNCHANGED <<loopResult, gpc>>
  /\ guardFrame

\* src/src/D9/main.ts:330-343
StepForward ==
  /\ gpc = "loop"
  /\ LET next == getNextLocation(currentLocation, currentDirection, obstaclePoint)
     IN  /\ ~next.outOfBounds
         /\ next.nextDirection = currentDirection
         /\ currentLocation' = next.nextLocation
         /\ currentDirection' = next.nextDirection
  /\ UNCHANGED <<loopResult, gpc, turnPoints>>
  /\ guardFrame

NextGuard ==
  \/ CreatesLoopReject
  \/ CreatesLoopBegin
  \/ StepOutOfBounds
  \/ StepLoopFound
  \/ StepTurn
  \/ StepForward

\* one call of createsLoop, running to its end: the program is one thread
SpecGuard == InitGuard /\ [][NextGuard]_vars /\ WF_vars(NextGuard)

\* ------------------------------------------------- the disk compaction
\* the element at index i of a JavaScript array
Elem(a, i) == a[i + 1]

Repeat(v, n) == [k \in 1..n |-> v]

\* src/src/D9/main.ts:20-37
RECURSIVE ParseDiskLoop(_, _, _, _)
ParseDiskLoop(diskMapString, i, fileId, dsk) ==
  IF i >= Len(diskMapString) THEN [disk |-> dsk, fileCount |-> fileId]
  ELSE LET length == DigitVal(Elem(diskMapString, i))
       IN  IF i % 2 = 0
             THEN ParseDiskLoop(diskMapString, i + 1, fileId + 1,
                                dsk \o Repeat(fileId, length))
             ELSE ParseDiskLoop(diskMapString, i + 1, fileId,
                                dsk \o Repeat(-1, length))

parseDiskMap(diskMapString) == ParseDiskLoop(diskMapString, 0, 0, <<>>)

\* Array.prototype.indexOf
RECURSIVE IndexOfFrom(_, _, _)
IndexOfFrom(a, v, i) ==
  IF i >= Len(a) THEN -1
  ELSE IF Elem(a, i) = v THEN i ELSE IndexOfFrom(a, v, i + 1)

indexOf(a, v) == IndexOfFrom(a, v, 0)

\* src/src/D9/main.ts:44-51
RECURSIVE RightmostFrom(_, _)
RightmostFrom(dsk, i) ==
  IF i < 0 THEN -1
  ELSE IF Elem(dsk, i) # -1 THEN i ELSE RightmostFrom(dsk, i - 1)

findRightmostFile(dsk) == RightmostFrom(dsk, Len(dsk) - 1)

\* hasFilesToRight answering true always
hasFilesToRightAlways(dsk, startIndex) == TRUE

\* src/src/D9/main.ts:59-66
hasFilesToRight(dsk, startIndex) ==
  \E i \in (startIndex + 1)..(Len(dsk) - 1) : Elem(dsk, i) # -1

\* findFreeSpan without the reset of currentSpanLength at a file block
RECURSIVE FreeSpanLoopNoReset(_, _, _, _, _, _)
FreeSpanLoopNoReset(dsk, limit, lengthNeeded, i, spanStart, currentSpanLength) ==
  IF i > limit THEN <<>>
  ELSE IF Elem(dsk, i) = -1
    THEN LET st == IF spanStart < 0 THEN i ELSE spanStart
         IN  IF currentSpanLength + 1 >= lengthNeeded THEN <<st>>
             ELSE FreeSpanLoopNoReset(dsk, limit, lengthNeeded, i + 1, st,
                                      currentSpanLength + 1)
    ELSE FreeSpanLoopNoReset(dsk, limit, lengthNeeded, i + 1, -1, currentSpanLength)

findFreeSpanNoReset(dsk, maxEnd, lengthNeeded) ==
  IF maxEnd - 1 < 0 THEN <<>>
  ELSE FreeSpanLoopNoReset(dsk, maxEnd - 1, lengthNeeded, 0, -1, 0)

\* src/src/D9/main.ts:101-110
RECURSIVE FreeSpanLoop(_, _, _, _, _, _)
FreeSpanLoop(dsk, limit, lengthNeeded, i, spanStart, currentSpanLength) ==
  IF i > limit THEN <<>>
  ELSE IF Elem(dsk, i) = -1
    THEN LET st == IF spanStart < 0 THEN i ELSE spanStart
         IN  IF currentSpanLength + 1 >= lengthNeeded THEN <<st>>
             ELSE FreeSpanLoop(dsk, limit, lengthNeeded, i + 1, st,
                               currentSpanLength + 1)
    ELSE FreeSpanLoop(dsk, limit, lengthNeeded, i + 1, -1, 0)

\* src/src/D9/main.ts:94-113; <<>> for null, <<spanStart>> otherwise
findFreeSpan(dsk, maxEnd, lengthNeeded) ==
  IF maxEnd - 1 < 0 THEN <<>>
  ELSE FreeSpanLoop(dsk, maxEnd - 1, lengthNeeded, 0, -1, 0)

\* src/src/D9/main.ts:125-130
RECURSIVE FileSpanLoop(_, _, _, _, _)
FileSpanLoop(dsk, fileId, i, st, en) ==
  IF i >= Len(dsk) THEN [start |-> st, end |-> en]
  ELSE IF Elem(dsk, i) = fileId
    THEN FileSpanLoop(dsk, fileId, i + 1, IF st < 0 THEN i ELSE st, i)
    ELSE FileSpanLoop(dsk, fileId, i + 1, st, en)

\* src/src/D9/main.ts:121-133; <<>> for null, <<[start, end]>> otherwise
findFileSpan(dsk, fileId) ==
  LET span == FileSpanLoop(dsk, fileId, 0, -1, -1)
  IN  IF span.start < 0 THEN <<>> ELSE <<span>>

\* src/src/D9/main.ts:167-175
RECURSIVE ChecksumLoop(_, _, _)
ChecksumLoop(dsk, i, sum) ==
  IF i >= Len(dsk) THEN sum
  ELSE ChecksumLoop(dsk, i + 1,
                    IF Elem(dsk, i) # -1 THEN sum + i * Elem(dsk, i) ELSE sum)

calculateChecksum(dsk) == ChecksumLoop(dsk, 0, 0)

\* the digits of the enumerated disk maps
DiskDigits == {"0", "1", "2", "3"}

\* src/src/D9/main.ts:13: the disk maps of at most MaxMapLen digits
InitDisk ==
  \E k \in 0..MaxMapLen :
    \E dm \in [1..k -> DiskDigits] :
      /\ diskMap = dm
      /\ disk = <<>>
      /\ fileCount = 0
      /\ currentFileId = 0
      /\ dOut1 = <<>>
      /\ dOut2 = <<>>
      /\ dpc = "part1"
      /\ D12Idle
      /\ GuardIdle
      /\ UfIdle

diskFrame == UNCHANGED <<d12Vars, parVars, guardVars, ufVars, diskMap>>

\* src/src/D9/main.ts:178
Part1Parse ==
  /\ dpc = "part1"
  /\ disk' = parseDiskMap(diskMap).disk
  /\ dpc' = "block"
  /\ UNCHANGED <<fileCount, currentFileId, dOut1, dOut2>>
  /\ diskFrame

\* src/src/D9/main.ts:74-80: the loop of compactBlockByBlock goes on
BlockContinues ==
  /\ indexOf(disk, -1) >= 0
  /\ hasFilesToRight(disk, indexOf(disk, -1))
  /\ findRightmostFile(disk) # -1

\* src/src/D9/main.ts:82-83
BlockMove ==
  /\ dpc = "block"
  /\ BlockContinues
  /\ LET leftFreeIndex == indexOf(disk, -1)
         rightFileIndex == findRightmostFile(disk)
     IN  disk' = [[disk EXCEPT ![leftFreeIndex + 1] = disk[rightFileIndex + 1]]
                    EXCEPT ![rightFileIndex + 1] = -1]
  /\ UNCHANGED <<fileCount, currentFileId, dOut1, dOut2, dpc>>
  /\ diskFrame

\* src/src/D9/main.ts:75, :77, :80 (break), :180 and :189
BlockBreak ==
  /\ dpc = "block"
  /\ ~BlockContinues
  /\ dOut1' = <<calculateChecksum(disk)>>
  /\ dpc' = "part2"
  /\ UNCHANGED <<disk, fileCount, currentFileId, dOut2>>
  /\ diskFrame

\* src/src/D9/main.ts:184 and :141
Part2Parse ==
  /\ dpc = "part2"
  /\ disk' = parseDiskMap(diskMap).disk
  /\ fileCount' = parseDiskMap(diskMap).fileCount
  /\ currentFileId' = parseDiskMap(diskMap).fileCount - 1
  /\ dpc' = "whole"
  /\ UNCHANGED <<dOut1, dOut2>>
  /\ diskFrame

\* src/src/D9/main.ts:142-143: the file has no block
WholeSkipMissing ==
  /\ dpc = "whole"
  /\ currentFileId >= 0
  /\ findFileSpan(disk, currentFileId) = <<>>
  /\ currentFileId' = currentFileId - 1
  /\ UNCHANGED <<disk, fileCount, dOut1, dOut2, dpc>>
  /\ diskFrame

\* src/src/D9/main.ts:145-148: no free span for the file
WholeSkipNoSpan ==
  /\ dpc = "whole"
  /\ currentFileId >= 0
  /\ findFileSpan(disk, currentFileId) # <<>>
  /\ LET fileSpan == findFileSpan(disk, currentFileId)[1]
         fileLength == fileSpan.end - fileSpan.start + 1
     IN  findFreeSpan(disk, fileSpan.start, fileLength) = <<>>
  /\ currentFileId' = currentFileId - 1
  /\ UNCHANGED <<disk, fileCount, dOut1, dOut2, dpc>>
  /\ diskFrame

\* src/src/D9/main.ts:150-158: the file is written at the span and cleared
WholeMove ==
  /\ dpc = "whole"
  /\ currentFileId >= 0
  /\ findFileSpan(disk, currentFileId) # <<>>
  /\ LET fileSpan == findFileSpan(disk, currentFileId)[1]
         fileLength == fileSpan.end - fileSpan.start + 1
         free == findFreeSpan(disk, fileSpan.start, fileLength)
     IN  /\ free # <<>>
         /\ LET written == [i \in 1..Len(disk) |->
                              IF i - 1 >= free[1] /\ i - 1 < free[1] + fileLength
                                THEN currentFileId ELSE disk[i]]
            IN  disk' = [i \in 1..Len(disk) |->
                           IF i - 1 >= fileSpan.start /\ i - 1 <= fileSpan.end
                             THEN -1 ELSE written[i]]
  /\ currentFileId' = currentFileId - 1
  /\ UNCHANGED <<fileCount, dOut1, dOut2, dpc>>
  /\ diskFrame

\* src/src/D9/main.ts:141 (loop exit), :186 and :190
WholeDone ==
  /\ dpc = "whole"
  /\ currentFileId < 0
  /\ dOut2' = <<calculateChecksum(disk)>>
  /\ dpc' = "done"
  /\ UNCHANGED <<disk, fileCount, currentFileId, dOut1>>
  /\ diskFrame

NextDisk ==
  \/ Part1Parse
  \/ BlockMove
  \/ BlockBreak
  \/ Part2Parse
  \/ WholeSkipMissing
  \/ WholeSkipNoSpan
  \/ WholeMove
  \/ WholeDone

\* the disk program, running to its end: it is one thread
SpecDisk == InitDisk /\ [][NextDisk]_vars /\ WF_vars(NextDisk)

\* ------------------------------------------------- a union-find of its own
\* the keys of n edge positions, as groupEdgeSegments passes them
UfKeys(n) == [i \in 1..n |-> coordinateKey(0, i - 1)]

\* src/src/D12/main.ts:113-120: createUnionFind has been called
InitUf ==
  \E n \in 1..MaxUfElements :
    /\ ufElements = UfKeys(n)
    /\ ufParent = createUnionFind(UfKeys(n)).parent
    /\ ufSize = createUnionFind(UfKeys(n)).size
    /\ ufClasses = {{e} : e \in Range(UfKeys(n))}
    /\ ufLast = [call |-> "createUnionFind", arg |-> <<>>, result |-> <<>>]
    /\ D12Idle
    /\ GuardIdle
    /\ DiskIdle

ufFrame == UNCHANGED <<d12Vars, parVars, guardVars, diskVars, ufElements>>

\* the classes after a and b have been declared equivalent
Merged(classes, a, b) ==
  LET touched == {C \in classes : a \in C \/ b \in C}
  IN  (classes \ touched) \cup {UNION touched}

\* src/src/D12/main.ts:131-143
UfUnion ==
  /\ ufLast.call # "none"
  /\ \E a, b \in Range(ufElements) :
       LET uf == union([parent |-> ufParent, size |-> ufSize], a, b)
       IN  /\ ufParent' = uf.parent
           /\ ufSize' = uf.size
           /\ ufClasses' = Merged(ufClasses, a, b)
           /\ ufLast' = [call |-> "union", arg |-> <<a, b>>, result |-> <<>>]
  /\ ufFrame

\* src/src/D12/main.ts:122-129
UfFind ==
  /\ ufLast.call # "none"
  /\ \E e \in Range(ufElements) :
       LET f == find([parent |-> ufParent, size |-> ufSize], e)
       IN  /\ ufParent' = f.parent
           /\ ufLast' = [call |-> "find", arg |-> <<e>>, result |-> <<f.root>>]
  /\ UNCHANGED <<ufSize, ufClasses>>
  /\ ufFrame

\* src/src/D12/main.ts:146: parent after elements.map(find)
RECURSIVE FindAllLoop(_, _, _)
FindAllLoop(parent, elements, i) ==
  IF i > Len(elements) THEN parent
  ELSE FindAllLoop(FindLoop(parent, elements[i]).parent, elements, i + 1)

\* src/src/D12/main.ts:145-148
UfCountComponents ==
  /\ ufLast.call # "none"
  /\ ufParent' = FindAllLoop(ufParent, ufElements, 1)
  /\ ufLast' = [call |-> "countComponents", arg |-> <<>>,
                result |-> <<countComponents([parent |-> ufParent, size |-> ufSize],
                                             ufElements)>>]
  /\ UNCHANGED <<ufSize, ufClasses>>
  /\ ufFrame

NextUf ==
  \/ UfUnion
  \/ UfFind
  \/ UfCountComponents

\* union, find and countComponents called in any sequence
SpecUf == InitUf /\ [][NextUf]_vars

\* findRegions has returned: regions is the global of src/src/D12/main.ts:84
Returned == pc \in {"part1", "part2", "done"}

\* ------------------------------------------------- properties: notions
CellSet(region) == Range(region.cells)

Adjacent4(a, b) ==
  \/ a.x = b.x /\ (a.y = b.y + 1 \/ b.y = a.y + 1)
  \/ a.y = b.y /\ (a.x = b.x + 1 \/ b.x = a.x + 1)

\* the cells of S joined to a cell of seen by a path of 4-adjacent cells of S
RECURSIVE ReachIn(_, _)
ReachIn(S, seen) ==
  LET more == seen \cup {c \in S : \E s \in seen : Adjacent4(c, s)}
  IN  IF more = seen THEN seen ELSE ReachIn(S, more)

Connected(S) == S = {} \/ ReachIn(S, {CHOOSE c \in S : TRUE}) = S

RegionIndexes == 1..Len(regions)

\* C1: once findRegions has returned, every in-bounds cell is in the cells
\* list of exactly one region, no cells list holds a cell twice, and the
\* regions hold grid cells only.
C1_Partition ==
  Returned =>
    /\ \A c \in GridCells :
         Cardinality({i \in RegionIndexes : c \in CellSet(regions[i])}) = 1
    /\ \A i \in RegionIndexes :
         \A j, k \in 1..Len(regions[i].cells) :
           regions[i].cells[j] = regions[i].cells[k] => j = k
    /\ \A i \in RegionIndexes : CellSet(regions[i]) \subseteq GridCells

C1_Witness ==
  /\ Returned
  /\ Len(regions) >= 2
  /\ \E i \in RegionIndexes : Len(regions[i].cells) >= 3

\* C2: every returned region is a maximal 4-connected same-symbol set: its
\* cells hold its char, it is 4-connected, and 4-adjacent cells with the same
\* symbol are never in different regions.
C2_MaximalConnected ==
  Returned =>
    /\ \A i \in RegionIndexes :
         /\ \A c \in CellSet(regions[i]) : At(grid, c.x, c.y) = regions[i].char
         /\ Connected(CellSet(regions[i]))
    /\ \A a, b \in GridCells :
         Adjacent4(a, b) /\ At(grid, a.x, a.y) = At(grid, b.x, b.y) =>
           \A i \in RegionIndexes :
             a \in CellSet(regions[i]) <=> b \in CellSet(regions[i])

\* two regions of the same symbol, and a region that bends
C2_Witness ==
  /\ Returned
  /\ \E i, j \in RegionIndexes : i # j /\ regions[i].char = regions[j].char
  /\ \E i \in RegionIndexes :
       \E a, b \in CellSet(regions[i]) : a.x # b.x /\ a.y # b.y

\* the unordered pairs of 4-adjacent cells of S, each counted once
InternalAdjacentPairs(S) ==
  Cardinality({ab \in S \X S :
                 \/ ab[2].x = ab[1].x + 1 /\ ab[2].y = ab[1].y
                 \/ ab[2].x = ab[1].x /\ ab[2].y = ab[1].y + 1})

\* C3: for every region of the segmentation,
\* computePerimeter = 4 * area - 2 * (internal adjacent pairs).
C3_PerimeterIdentity ==
  pc = "done" =>
    \A i \in RegionIndexes :
      computePerimeter(regions[i]) =
        4 * Cardinality(CellSet(regions[i]))
          - 2 * InternalAdjacentPairs(CellSet(regions[i]))

\* part1 has called computePerimeter on a region with a 2-by-2 block or more
C3_Witness ==
  /\ pc = "done"
  /\ \E i \in RegionIndexes : InternalAdjacentPairs(CellSet(regions[i])) >= 4
  /\ out1[1] > 0

\* ------------------------------------------------- sides: notions
\* the cells of S whose neighbour at offset (dx, dy) is not in S
BoundaryCells(S, dx, dy) == {c \in S : [x |-> c.x + dx, y |-> c.y + dy] \notin S}

Between(a, b) == IF a <= b THEN a..b ELSE b..a

\* a and b of B are linked by a chain of cells of B along one line: the same
\* x and consecutive y (vertical), or the same y and consecutive x
SameRun(B, a, b, vertical) ==
  IF vertical
    THEN a.x = b.x /\ \A yy \in Between(a.y, b.y) : [x |-> a.x, y |-> yy] \in B
    ELSE a.y = b.y /\ \A xx \in Between(a.x, b.x) : [x |-> xx, y |-> a.y] \in B

MaximalRuns(B, vertical) == {{b \in B : SameRun(B, a, b, vertical)} : a \in B}

LeftRuns(S)   == MaximalRuns(BoundaryCells(S, -1, 0), TRUE)
RightRuns(S)  == MaximalRuns(BoundaryCells(S, 1, 0), TRUE)
TopRuns(S)    == MaximalRuns(BoundaryCells(S, 0, -1), FALSE)
BottomRuns(S) == MaximalRuns(BoundaryCells(S, 0, 1), FALSE)

RunCount(S) ==
  Cardinality(LeftRuns(S)) + Cardinality(RightRuns(S)) +
  Cardinality(TopRuns(S)) + Cardinality(BottomRuns(S))

\* C4: for every region, computeSides is the number of maximal runs of
\* boundary cells, summed over the four orientations, runs of left/right
\* boundary cells being vertical and runs of top/bottom ones horizontal.
C4_SidesAreRuns ==
  pc = "done" =>
    \A i \in RegionIndexes : computeSides(regions[i]) = RunCount(CellSet(regions[i]))

\* part2 has called computeSides on a region with two left runs, one of them
\* longer than one cell
C4_Witness ==
  /\ pc = "done"
  /\ \E i \in RegionIndexes :
       /\ Cardinality(LeftRuns(CellSet(regions[i]))) >= 2
       /\ \E r \in LeftRuns(CellSet(regions[i])) : Cardinality(r) >= 2

\* C5: a region of a single cell has perimeter 4 and 4 sides.
C5_SingleCell ==
  pc = "done" =>
    \A i \in RegionIndexes :
      Len(regions[i].cells) = 1 =>
        computePerimeter(regions[i]) = 4 /\ computeSides(regions[i]) = 4

\* single-cell regions in a corner, on a border and in the interior, all of
\* them through part1 and part2
C5_Witness ==
  /\ pc = "done"
  /\ \E i, j, k \in RegionIndexes :
       /\ Len(regions[i].cells) = 1 /\ Len(regions[j].cells) = 1
       /\ Len(regions[k].cells) = 1
       /\ regions[i].cells[1] = [x |-> 0, y |-> 0]
       /\ regions[j].cells[1] = [x |-> 1, y |-> 0]
       /\ regions[k].cells[1] = [x |-> 1, y |-> 1]
       /\ width = 3 /\ height = 3

MinOf(S) == CHOOSE m \in S : \A n \in S : m <= n
MaxOf(S) == CHOOSE m \in S : \A n \in S : m >= n
Xs(S) == {c.x : c \in S}
Ys(S) == {c.y : c \in S}
RectWidth(S)  == MaxOf(Xs(S)) - MinOf(Xs(S)) + 1
RectHeight(S) == MaxOf(Ys(S)) - MinOf(Ys(S)) + 1

\* S is all of its bounding box
IsRectangle(S) ==
  S = {[x |-> px, y |-> py] :
         px \in MinOf(Xs(S))..MaxOf(Xs(S)), py \in MinOf(Ys(S))..MaxOf(Ys(S))}

\* C6: a region that is a full w-by-h rectangle has perimeter 2 * (w + h)
\* and 4 sides.
C6_Rectangle ==
  pc = "done" =>
    \A i \in RegionIndexes :
      IsRectangle(CellSet(regions[i])) =>
        /\ computePerimeter(regions[i]) =
             2 * (RectWidth(CellSet(regions[i])) + RectHeight(CellSet(regions[i])))
        /\ computeSides(regions[i]) = 4

\* a 2-by-2 rectangle away from the origin, through part1 and part2
C6_Witness ==
  /\ pc = "done"
  /\ \E i \in RegionIndexes :
       /\ IsRectangle(CellSet(regions[i]))
       /\ RectWidth(CellSet(regions[i])) = 2
       /\ RectHeight(CellSet(regions[i])) = 2
       /\ MinOf(Xs(CellSet(regions[i]))) = 1
       /\ MinOf(Ys(CellSet(regions[i]))) = 1

AllRuns(S) == LeftRuns(S) \cup RightRuns(S) \cup TopRuns(S) \cup BottomRuns(S)

\* C7: a region with a straight boundary run longer than one cell has fewer
\* sides than perimeter, and a region that is not a full rectangle has more
\* than 4 sides.
C7_SidesBounds ==
  pc = "done" =>
    \A i \in RegionIndexes :
      /\ (\E r \in AllRuns(CellSet(regions[i])) : Cardinality(r) > 1) =>
           computeSides(regions[i]) < computePerimeter(regions[i])
      /\ ~IsRectangle(CellSet(regions[i])) => computeSides(regions[i]) > 4

\* an L of three cells and, in another grid state, a U of five: here the L
C7_Witness ==
  /\ pc = "done"
  /\ \E i \in RegionIndexes :
       /\ ~IsRectangle(CellSet(regions[i]))
       /\ \E r \in AllRuns(CellSet(regions[i])) : Cardinality(r) > 1

\* C8: on the grid AAAA / BBCD / BBCC / EEEC the region of A has area 4,
\* perimeter 10 and 4 sides, and the region of C has area 4 and more than
\* 4 sides.
C8_Scenario ==
  grid = ExampleGrid /\ Returned =>
    /\ \E i \in RegionIndexes :
         /\ regions[i].char = "A"
         /\ Len(regions[i].cells) = 4
         /\ computePerimeter(regions[i]) = 10
         /\ computeSides(regions[i]) = 4
    /\ \E i \in RegionIndexes :
         /\ regions[i].char = "C"
         /\ Len(regions[i].cells) = 4
         /\ computeSides(regions[i]) > 4

C8_Witness ==
  /\ grid = ExampleGrid
  /\ pc = "done"
  /\ Len(regions) = 5
  /\ out1 = <<140>>

\* the maximal 4-connected same-symbol sets of the grid, from the grid alone
SameSymbolCells(c) == {e \in GridCells : At(grid, e.x, e.y) = At(grid, c.x, c.y)}
Components == {ReachIn(SameSymbolCells(c), {c}) : c \in GridCells}

RegionSets == {CellSet(regions[i]) : i \in RegionIndexes}

\* C9: whatever the order of the four directions, and with a queue or a
\* stack, findRegions returns the same set of regions as sets of cells: the
\* set the grid alone determines.
C9_OrderIndependent == Returned => RegionSets = Components

\* a stack and another order of the directions, on a region large enough for
\* the order of discovery to differ
C9_Witness ==
  /\ Returned
  /\ lifo
  /\ dirs # directions
  /\ \E i \in RegionIndexes :
       /\ Len(regions[i].cells) >= 4
       /\ regions[i].cells[2] = [x |-> 0, y |-> 1]
  /\ Len(regions) >= 2

RECURSIVE SumOver(_, _, _)
SumOver(f(_), s, i) == IF i > Len(s) THEN 0 ELSE f(s[i]) + SumOver(f, s, i + 1)

AreaTimesPerimeter(region) == Cardinality(CellSet(region)) * computePerimeter(region)
AreaTimesSides(region) == Cardinality(CellSet(region)) * computeSides(region)

\* C10: what part1 prints is the sum over the regions of area * perimeter and
\* what part2 prints the sum of area * sides, each region counted once.
C10_Totals ==
  /\ out1 # <<>> => out1 = <<SumOver(AreaTimesPerimeter, regions, 1)>>
  /\ out2 # <<>> => out2 = <<SumOver(AreaTimesSides, regions, 1)>>

C10_Witness ==
  /\ pc = "done"
  /\ Len(regions) >= 3
  /\ out1[1] > out2[1]
  /\ out2[1] > 0

\* C11: on a malformed input (rows of unequal length, or an empty input) the
\* program reports no counts.
C11_FailFast == Malformed(grid) => out1 = <<>> /\ out2 = <<>>

HasEqualNeighbours ==
  \E a, b \in GridCells : Adjacent4(a, b) /\ At(grid, a.x, a.y) = At(grid, b.x, b.y)

Uniform == \A a, b \in GridCells : At(grid, a.x, a.y) = At(grid, b.x, b.y)

\* C12: a grid without two 4-adjacent cells of the same symbol yields
\* width * height regions of one cell each, and a grid of one symbol yields
\* one region holding every cell.
C12_DistinctAndUniform ==
  Returned =>
    /\ ~HasEqualNeighbours =>
         /\ Len(regions) = width * height
         /\ \A i \in RegionIndexes : Len(regions[i].cells) = 1
    /\ Uniform =>
         /\ Len(regions) = 1
         /\ CellSet(regions[1]) = GridCells
         /\ Len(regions[1].cells) = width * height

\* the grid of distinct symbols has been segmented
C12_Witness ==
  /\ Returned
  /\ grid = DistinctGrid
  /\ Len(regions) = 6

\* the cells list under construction, while a region is being filled
InProgress == IF pc \in {"bfs", "dir"} THEN cells ELSE <<>>

CountIn(c, s) == Cardinality({i \in 1..Len(s) : s[i] = c})

RECURSIVE CountInRegions(_, _)
CountInRegions(c, i) ==
  IF i > Len(regions) THEN 0
  ELSE CountIn(c, regions[i].cells) + CountInRegions(c, i + 1)

\* how often c is listed in the cells lists, the one under construction included
Occurrences(c) == CountInRegions(c, 1) + CountIn(c, InProgress)

VisitedMatchesCells ==
  /\ \A c \in GridCells :
       /\ visited[c] <=> Occurrences(c) >= 1
       /\ Occurrences(c) <= 1
       /\ CountIn(c, queue) <= 1

VisitedStep ==
  /\ \A c \in GridCells : visited[c] => visited'[c]
  /\ \A c \in GridCells :
       ~visited[c] /\ visited'[c] =>
         /\ cells' # cells /\ cells'[Len(cells')] = c
         /\ Len(queue') = Len(queue) + 1 /\ queue'[Len(queue')] = c
  /\ Len(queue') > Len(queue) =>
       ~visited[queue'[Len(queue')]] /\ visited'[queue'[Len(queue')]]
  /\ cells' # cells =>
       ~visited[cells'[Len(cells')]] /\ visited'[cells'[Len(cells')]]

AllVisited == \A c \in DOMAIN visited : visited[c]

\* C14: on a well-formed grid findRegions terminates: every BFS ends with an
\* empty queue, the scan reaches the end, and then every cell is visited.
C14_Terminates ==
  /\ <>Returned
  /\ (pc \in {"bfs", "dir"}) ~> (pc = "scan" /\ queue = <<>>)
  /\ [](Returned => AllVisited /\ y >= height /\ queue = <<>>)

C14_Witness ==
  /\ Returned
  /\ AllVisited
  /\ Len(regions) >= 3
  /\ width >= 2 /\ height >= 2

\* the test of computePerimeter with the symbols of the grid for the cell set
DiffersInGrid(region, c, dir) ==
  \/ ~inBounds(c.x + dir[1], c.y + dir[2])
  \/ At(grid, c.x + dir[1], c.y + dir[2]) # region.char

DirectionIndexes == 1..Len(directions)

SymbolPerimeter(region) ==
  Cardinality({cd \in CellSet(region) \X DirectionIndexes :
                 DiffersInGrid(region, cd[1], directions[cd[2]])})

\* C15: for every region of the segmentation an edge is counted by
\* computePerimeter exactly when the neighbour is out of bounds or holds
\* another symbol; the perimeter is the same by either test, and every edge
\* on the grid border is counted.
C15_SymbolTest ==
  pc = "done" =>
    \A i \in RegionIndexes :
      /\ \A c \in CellSet(regions[i]) : \A k \in DirectionIndexes :
           /\ Exposed(KeySet(regions[i]), c, directions[k])
                <=> DiffersInGrid(regions[i], c, directions[k])
           /\ ~inBounds(c.x + directions[k][1], c.y + directions[k][2])
                => Exposed(KeySet(regions[i]), c, directions[k])
      /\ computePerimeter(regions[i]) = SymbolPerimeter(regions[i])

\* two regions of one symbol, one of them with an interior cell
C15_Witness ==
  /\ pc = "done"
  /\ \E i, j \in RegionIndexes : i # j /\ regions[i].char = regions[j].char
  /\ \E i \in RegionIndexes :
       /\ Len(regions[i].cells) >= 5
       /\ [x |-> 1, y |-> 1] \in CellSet(regions[i])
       /\ computePerimeter(regions[i]) < 4 * Len(regions[i].cells)

\* C17: the grid never changes, and once findRegions has returned no step
\* changes the regions.
C17_Frame ==
  /\ [][grid' = grid /\ width' = width /\ height' = height]_vars
  /\ [][Returned => Returned' /\ regions' = regions]_vars

\* part1 and part2 have run over at least two regions
C17_Witness ==
  /\ pc = "done"
  /\ Len(regions) >= 2
  /\ out1 # <<>> /\ out2 # <<>>

\* C16: whatever the order in which the regions are processed, and however
\* the perimeter and the sides computations of different regions interleave,
\* the two totals are those of the sequential loops of part1 and part2.
C16_AnyOrder ==
  pc = "joined" =>
    /\ sumP = Part1Total(1, 0)
    /\ sumS = Part2Total(1, 0)

\* three regions or more, of different measures, all processed
C16_Witness ==
  /\ pc = "joined"
  /\ Len(regions) >= 3
  /\ \E i, j \in RegionIndexes : computePerimeter(regions[i]) # computePerimeter(regions[j])
  /\ sumP > sumS

\* whether the guard, with the extra obstacle, steps out of the grid within n steps
RECURSIVE LeavesWithin(_, _, _)
LeavesWithin(loc, dir, n) ==
  IF n = 0 THEN FALSE
  ELSE LET next == getNextLocation(loc, dir, obstaclePoint)
       IN  IF next.outOfBounds THEN TRUE
           ELSE LeavesWithin(next.nextLocation, next.nextDirection, n - 1)

\* a walk of more steps than there are pairs (location, direction) repeats one
NeverLeaves == ~LeavesWithin(start, "N", 4 * gWidth * gHeight + 1)

\* C18: createsLoop(p), p neither an obstacle nor the start, terminates and
\* returns true iff the guard with the extra obstacle at p never leaves the grid.
C18_CreatesLoop ==
  /\ <>(gpc = "returned")
  /\ [](gpc = "returned" /\ ~Rejected => loopResult = <<NeverLeaves>>)

\* a loop in which the guard moves, found after four turns or more
C18_Witness ==
  /\ gpc = "returned"
  /\ loopResult = <<TRUE>>
  /\ Cardinality(turnPoints) >= 4
  /\ currentLocation # start

\* ------------------------------------------------- the disk compaction
\* the indexes of the free blocks and of the file blocks of a disk
FreeIndexes(dsk) == {i \in 0..(Len(dsk) - 1) : Elem(dsk, i) = -1}

FileIndexes(dsk) == {i \in 0..(Len(dsk) - 1) : Elem(dsk, i) # -1}

Least(S) == CHOOSE m \in S : \A n \in S : m <= n

Greatest(S) == CHOOSE m \in S : \A n \in S : m >= n

\* the number of blocks of a disk holding v
BlocksOf(dsk, v) == Cardinality({i \in 0..(Len(dsk) - 1) : Elem(dsk, i) = v})

\* the disk the call was made with
ParsedDisk == parseDiskMap(diskMap).disk

\* the same multiset of ids, the free marker included, and the same length
SameBlocks(a, b) ==
  /\ Len(a) = Len(b)
  /\ \A v \in Range(a) \cup Range(b) : BlocksOf(a, v) = BlocksOf(b, v)

\* no free slot to the left of a file block
Compacted(dsk) ==
  \A i \in FreeIndexes(dsk) : \A j \in FileIndexes(dsk) : j < i

\* the rightmost file block goes into the leftmost free slot, which is on
\* its left, and the slot it leaves becomes free
MovesRightmostIntoLeftmost ==
  /\ FreeIndexes(disk) # {}
  /\ FileIndexes(disk) # {}
  /\ LET l == Least(FreeIndexes(disk))
         r == Greatest(FileIndexes(disk))
     IN  /\ l < r
         /\ disk' = [i \in 1..Len(disk) |->
                       IF i = l + 1 THEN Elem(disk, r)
                       ELSE IF i = r + 1 THEN -1 ELSE disk[i]]

\* C19: compactBlockByBlock terminates on every disk array; each of its steps
\* moves the rightmost file block into the leftmost free slot; and when it
\* has ended no free slot lies to the left of a file block, while the
\* multiset of ids on the disk and the length of the disk are those the call
\* was made with.
C19_BlockByBlock ==
  /\ (dpc = "block") ~> (dpc = "part2")
  /\ [][dpc = "block" /\ dpc' = "block" => MovesRightmostIntoLeftmost]_vars
  /\ [](dpc = "part2" => Compacted(disk) /\ SameBlocks(disk, ParsedDisk))

\* the call has ended after moving blocks of two files over a gap
C19_Witness ==
  /\ dpc = "part2"
  /\ ~Compacted(ParsedDisk)
  /\ Cardinality({i \in 0..(Len(disk) - 1) :
                    Elem(disk, i) # -1 /\ Elem(disk, i) # Elem(ParsedDisk, i)}) >= 2
  /\ Cardinality(Range(disk) \ {-1}) >= 3

\* the indexes of the blocks of file id
FileBlocks(dsk, id) == {i \in 0..(Len(dsk) - 1) : Elem(dsk, i) = id}

Contiguous(S) == S = {} \/ S = Least(S)..Greatest(S)

\* the starts of the free spans of n blocks that end before index before
FittingStarts(dsk, n, before) ==
  {st \in 0..(before - n) : \A i \in st..(st + n - 1) : Elem(dsk, i) = -1}

\* a step on file id: the file goes as a whole to the leftmost fitting span
\* on the left of its start, and stays where it is when there is none
WholeFileStep(id) ==
  LET blocks == FileBlocks(disk, id)
      n == Cardinality(blocks)
      fits == IF blocks = {} THEN {} ELSE FittingStarts(disk, n, Least(blocks))
  IN  IF fits = {}
        THEN disk' = disk
        ELSE disk' = [i \in 1..Len(disk) |->
                        IF i - 1 \in Least(fits)..(Least(fits) + n - 1) THEN id
                        ELSE IF i - 1 \in blocks THEN -1 ELSE disk[i]]

\* every file is a contiguous span of the length it was parsed with, and
\* the disk holds nothing else
FilesIntact ==
  /\ Len(disk) = Len(ParsedDisk)
  /\ Range(disk) \subseteq -1..(fileCount - 1)
  /\ \A id \in 0..(fileCount - 1) :
       /\ Contiguous(FileBlocks(disk, id))
       /\ BlocksOf(disk, id) = BlocksOf(ParsedDisk, id)

\* C20: compactWholeFiles considers the files in decreasing id order, each
\* once; it moves a file only as a whole and only to the leftmost free span
\* of at least its length that lies entirely on the left of its start, and a
\* file without such a span stays where it is; after every step each file is
\* a contiguous span of its original length and no file has been overwritten.
C20_WholeFiles ==
  /\ [][dpc = "part2" => currentFileId' = fileCount' - 1]_vars
  /\ [][dpc = "whole" /\ dpc' = "whole" =>
          /\ currentFileId \in 0..(fileCount - 1)
          /\ currentFileId' = currentFileId - 1
          /\ WholeFileStep(currentFileId)]_vars
  /\ [][dpc = "whole" /\ dpc' = "done" => currentFileId = -1 /\ disk' = disk]_vars
  /\ [](dpc \in {"whole", "done"} => FilesIntact)

\* the pass has ended: a file has moved, and another has stayed with a free
\* block on its left
C20_Witness ==
  /\ dpc = "done"
  /\ \E id \in 0..(fileCount - 1) :
       /\ FileBlocks(disk, id) # {}
       /\ FileBlocks(disk, id) # FileBlocks(ParsedDisk, id)
  /\ \E id \in 0..(fileCount - 1) :
       /\ FileBlocks(disk, id) # {}
       /\ FileBlocks(disk, id) = FileBlocks(ParsedDisk, id)
       /\ \E i \in FreeIndexes(disk) : i < Least(FileBlocks(disk, id))

\* ------------------------------------------------- corners
DiagonalOffsets == {<<-1, -1>>, <<1, -1>>, <<-1, 1>>, <<1, 1>>}

\* the cell at offset (dx, dy) of c
Shift(c, dx, dy) == [x |-> c.x + dx, y |-> c.y + dy]

\* at the diagonal dg of c the boundary of S turns outwards
ConvexCorner(S, c, dg) ==
  /\ Shift(c, dg[1], 0) \notin S
  /\ Shift(c, 0, dg[2]) \notin S

\* at the diagonal dg of c the boundary of S turns inwards
ConcaveCorner(S, c, dg) ==
  /\ Shift(c, dg[1], 0) \in S
  /\ Shift(c, 0, dg[2]) \in S
  /\ Shift(c, dg[1], dg[2]) \notin S

CornerCount(S) ==
  Cardinality({p \in S \X DiagonalOffsets : ConvexCorner(S, p[1], p[2])}) +
  Cardinality({p \in S \X DiagonalOffsets : ConcaveCorner(S, p[1], p[2])})

\* C21: for every region, computeSides is the number of corners of the
\* region: for each cell and each diagonal (dx, dy), one convex corner when
\* neither (x+dx, y) nor (x, y+dy) is in the region, and one concave corner
\* when both are in the region and (x+dx, y+dy) is not.
C21_SidesAreCorners ==
  pc = "done" =>
    \A i \in RegionIndexes : computeSides(regions[i]) = CornerCount(CellSet(regions[i]))

\* part2 has measured a region with a concave corner and with two cells that
\* touch only at a point, each with a convex corner there
C21_Witness ==
  /\ pc = "done"
  /\ \E i \in RegionIndexes :
       LET S == CellSet(regions[i])
       IN  /\ \E c \in S, dg \in DiagonalOffsets : ConcaveCorner(S, c, dg)
           /\ \E c \in S, dg \in DiagonalOffsets :
                ConvexCorner(S, c, dg) /\ Shift(c, dg[1], dg[2]) \in S

\* ------------------------------------------------- edges and perimeter
\* the four edge lists computeSides collects
EdgeTotal(region) ==
  Len(leftEdges(region)) + Len(rightEdges(region)) +
  Len(topEdges(region)) + Len(bottomEdges(region))

\* the keys of the positions next to a cell of the region and outside the grid
OutsideKeys(region) ==
  {coordinateKey(p[1].x + p[2][1], p[1].y + p[2][2]) :
     p \in {q \in CellSet(region) \X Range(directions) :
              ~inBounds(q[1].x + q[2][1], q[1].y + q[2][2])}}

\* C22: for every region produced by segmentation, the edges collected by
\* computeSides are those counted by computePerimeter: the sizes of
\* leftEdges, rightEdges, topEdges and bottomEdges add up to
\* computePerimeter(region); computeSides has no bounds test, and no key of a
\* position outside the grid is in the cell set of the region.
C22_EdgesArePerimeter ==
  pc = "done" =>
    \A i \in RegionIndexes :
      /\ EdgeTotal(regions[i]) = computePerimeter(regions[i])
      /\ OutsideKeys(regions[i]) \cap KeySet(regions[i]) = {}

\* part2 has measured a region that lies on the border of the grid, on the
\* left and on the top, and also has an edge inside the grid
C22_Witness ==
  /\ pc = "done"
  /\ \E i \in RegionIndexes :
       /\ coordinateKey(0, 0) \in KeySet(regions[i])
       /\ coordinateKey(-1, 0) \in OutsideKeys(regions[i])
       /\ coordinateKey(0, -1) \in OutsideKeys(regions[i])
       /\ \E c \in CellSet(regions[i]) :
            inBounds(c.x + 1, c.y) /\ Shift(c, 1, 0) \notin CellSet(regions[i])
       /\ Len(regions[i].cells) >= 3

\* ------------------------------------------------- the order of the cells
\* the regions with the cells of region, listed in every order
Reorderings(region) ==
  {[cells |-> [i \in 1..Len(region.cells) |-> region.cells[p[i]]],
    char  |-> region.char] : p \in Permutations(1..Len(region.cells))}

\* C23: computePerimeter and computeSides depend on the set of the cells of
\* a region only: every permutation of region.cells, and so every order of
\* the union calls, gives the same perimeter and the same number of sides.
C23_CellOrder ==
  pc = "done" =>
    \A i \in RegionIndexes : \A r \in Reorderings(regions[i]) :
      /\ computePerimeter(r) = computePerimeter(regions[i])
      /\ computeSides(r) = computeSides(regions[i])

\* part2 has measured a region of five cells or more that is not a rectangle
\* and has a boundary run of three cells, united in an order that varies
C23_Witness ==
  /\ pc = "done"
  /\ \E i \in RegionIndexes :
       /\ Len(regions[i].cells) >= 5
       /\ ~IsRectangle(CellSet(regions[i]))
       /\ \E r \in AllRuns(CellSet(regions[i])) : Cardinality(r) >= 3

\* ------------------------------------------------- reads of the neighbours
\* the read is at coordinates for which inBounds holds, and there the
\* visited matrix and the grid have an entry
ReadInBounds(r) ==
  /\ inBounds(r.x, r.y)
  /\ [x |-> r.x, y |-> r.y] \in DOMAIN visited
  /\ r.y + 1 \in 1..Len(grid)
  /\ r.x + 1 \in 1..Len(grid[r.y + 1])

\* C24: findRegions never reads the grid or the visited matrix at
\* out-of-bounds coordinates: for every grid, every cell dequeued and every
\* direction, grid[ny][nx] and visited[ny][nx] are read only after
\* inBounds(nx, ny) has held; the reads made are those that decide whether
\* the neighbour joins the region.
C24_ReadsInBounds ==
  pc = "dir" =>
    LET nx == cx + dirs[d][1]
        ny == cy + dirs[d][2]
        reads == NeighbourReads(nx, ny)
    IN  /\ \A i \in 1..Len(reads) : ReadInBounds(reads[i])
        /\ ~inBounds(nx, ny) => reads = <<>>
        /\ Accepts(nx, ny) <=> (Len(reads) = 2 /\ At(grid, nx, ny) = character)

\* a cell of the last row other than the first of its region has been
\* dequeued, and the direction examined points below the grid: nothing is read
C24_Witness ==
  /\ pc = "dir"
  /\ cy + dirs[d][2] = height
  /\ cx > 0
  /\ Len(cells) >= 2
  /\ NeighbourReads(cx + dirs[d][1], cy + dirs[d][2]) = <<>>

\* ------------------------------------------------- union-find
\* the element reached from e by following parent, at most k times, when it
\* is a root; <<>> when none is reached
RECURSIVE Climb(_, _, _)
Climb(par, e, k) ==
  IF par[e] = e THEN e
  ELSE IF k = 0 THEN <<>> ELSE Climb(par, par[e], k - 1)

RootIn(par, e) == Climb(par, e, Len(ufElements))

UfForest ==
  /\ DOMAIN ufParent = Range(ufElements)
  /\ DOMAIN ufSize = Range(ufElements)
  /\ \A e \in Range(ufElements) :
       ufParent[e] \in Range(ufElements) /\ RootIn(ufParent, e) # <<>>

\* the elements with the same root are those of the same class
UfClassesMatch ==
  \A a, b \in Range(ufElements) :
    (RootIn(ufParent, a) = RootIn(ufParent, b)) <=> (\E C \in ufClasses : a \in C /\ b \in C)

UfSizesMatch ==
  \A r \in Range(ufElements) :
    ufParent[r] = r =>
      ufSize[r] = Cardinality({e \in Range(ufElements) : RootIn(ufParent, e) = r})

UfReturnsMatch ==
  /\ ufLast.call = "find" => ufLast.result = <<RootIn(ufParent, ufLast.arg[1])>>
  /\ ufLast.call = "countComponents" => ufLast.result = <<Cardinality(ufClasses)>>

\* a call that unites no two classes leaves every element under its root
UfRootsKept ==
  ufClasses' = ufClasses =>
    \A e \in Range(ufElements) : RootIn(ufParent', e) = RootIn(ufParent, e)

\* C25: in the union-find built by createUnionFind, after any sequence of
\* union and find calls the parent pointers form a forest (following parent
\* from any element reaches a root, so find terminates); path compression
\* never changes the root of an element; size[r] of every root r is the
\* number of elements whose root is r; and countComponents returns the number
\* of classes of the equivalence generated by the union calls made so far.
C25_UnionFind ==
  /\ [](UfForest /\ UfClassesMatch /\ UfSizesMatch /\ UfReturnsMatch)
  /\ [][UfRootsKept]_vars

\* path compression has acted: an element that was the root of a tree of two
\* or more is now under another root and has lost its children
C25_Witness ==
  /\ ufLast.call = "find"
  /\ Cardinality(ufClasses) >= 2
  /\ \E c \in Range(ufElements) :
       /\ ufParent[c] # c
       /\ ufSize[c] >= 2
       /\ \A e \in Range(ufElements) \ {c} : ufParent[e] # c

====
